---------------------------- MODULE Spec2Model ----------------------------
(***************************************************************************)
(* Round coordination and staleness-aware aggregation of the federated     *)
(* learning session of src/src/async_server.py (StalenessAwareAsyncFedAvg) *)
(* and src/src/async_client.py (AsyncFlowerClient).                        *)
(*                                                                         *)
(* The strategy's handlers (configure_fit, aggregate_fit,                  *)
(* configure_evaluate, aggregate_evaluate) and the client's handlers (fit, *)
(* evaluate) are the actions.  The round loop that calls them is the one   *)
(* fl.server.start_server runs for start_async_server: for every round     *)
(* 1..num_rounds a fit phase, then an evaluate phase.  An instruction is    *)
(* what the strategy returns for a client: the config alone.  A client's   *)
(* handler is called with the loop's current parameters and that config.   *)
(*                                                                         *)
(* A parameter vector is a list of tensors of one element each; elements   *)
(* are exact rationals <<numerator, denominator>>, the float rounding of   *)
(* numpy is not modelled.  Local training is a function of the parameters  *)
(* loaded and of the client.                                               *)
(***************************************************************************)
EXTENDS Integers, Sequences, FiniteSets, TLC

\* ------------------------------------------------------------- bounds
MaxClients == 2

MaxRounds == 2

MaxThreshold == 1

\* the tensors of a vector sent by a client of any kind
MaxTensors == 3

\* the sample count reported by a client of any kind
MaxSamples == 2

\* the delay a client simulates, in units of time
MaxDelay == 1

\* --------------------------------------------------- program constants
NumClientsDefault == 4

NumRoundsDefault == 5

StalenessThresholdDefault == 2

MinEvaluateClientsDefault == 2

\* ----------------------------------------------------------- rationals
RECURSIVE GCD(_, _)
GCD(a, b) == IF b = 0 THEN a ELSE GCD(b, a % b)

Abs(x) == IF x < 0 THEN -x ELSE x

\* a rational in lowest terms with a positive denominator; n and d are
\* computed once
RNorm(n, d) ==
    LET Lowest(q) ==
            LET g == GCD(Abs(q[1]), Abs(q[2]))
                s == IF q[2] < 0 THEN -1 ELSE 1
            IN  <<(s * q[1]) \div g, (s * q[2]) \div g>>
    IN  CHOOSE r \in {Lowest(q) : q \in {<<n, d>>}} : TRUE

RInt(n) == <<n, 1>>

RAdd(x, y) == RNorm(x[1] * y[2] + y[1] * x[2], x[2] * y[2])

RMul(x, y) == RNorm(x[1] * y[1], x[2] * y[2])

RDiv(n, d) == RNorm(n, d)

RFloor(x) == x[1] \div x[2]

Max(a, b) == IF a >= b THEN a ELSE b

\* ------------------------------------------------------------ the data
\* fraction_fit values a session may be created with (1.0 is the wiring of
\* start_async_server)
FractionChoices == {<<1, 2>>, <<1, 1>>}

FractionEvaluate == <<1, 2>>

\* the initial model parameters: two tensors
InitialParameters == <<RInt(0), RInt(0)>>

\* the model a client builds for itself before it is sent any parameters
ClientModel(c) == <<RInt(0 - c), RInt(0)>>

\* local training of client c: a pure function of the parameters the
\* client loaded and of its own data, different for every client
Train(c, loaded) ==
    [j \in 1..Len(loaded) |->
        RAdd(loaded[j], RInt(IF j = 1 THEN c ELSE 1))]

\* local evaluation of client c: correct / total on the client's own data,
\* a pure function of the parameters loaded, different for every client
Accuracy(c, loaded) ==
    IF loaded = InitialParameters THEN RInt(0) ELSE RDiv(1, c)

\* len(self.dataloader.dataset) of client c
DatasetSize(c) == 1 + (c % 2)

\* Optional values: None, or the value it holds
NoValue == << >>

Some(v) == <<v>>

\* ----------------------------------------------------------- the state
VARIABLES
    \* the session (start_async_server and the round loop it starts)
    cids,                 \* the client ids of the session
    num_rounds,           \* ServerConfig(num_rounds)
    current_round,        \* the loop's round number
    pc,                   \* the loop's position
    available,            \* the clients the fit phase in progress was
                          \* sampled from
    parameters,           \* the loop's current global parameters
    fit_ins,              \* fit instructions in flight: cid -> instruction
    results,              \* fit results gathered in this round, by arrival
    fit_return,           \* what aggregate_fit returned for this round
    eval_ins,             \* evaluate instructions in flight
    eval_results,         \* evaluate results gathered in this round
    eval_return,          \* what aggregate_evaluate returned
    \* StalenessAwareAsyncFedAvg
    fraction_fit,
    min_fit_clients,
    staleness_threshold,
    server_round,
    client_rounds,
    staleness_stats,
    accepted_updates,
    rejected_updates,
    global_parameters,
    parameters_history,
    \* AsyncFlowerClient, one per client id
    local_round,
    client_server_round,
    staleness,
    is_stale,
    model,
    \* history of the session, for stating the properties
    round_log

sessionVars == <<cids, num_rounds, current_round, pc, available,
                 parameters, fit_ins,
                 results, fit_return, eval_ins, eval_results, eval_return>>

strategyVars == <<fraction_fit, min_fit_clients, staleness_threshold,
                  server_round, client_rounds, staleness_stats,
                  accepted_updates, rejected_updates, global_parameters,
                  parameters_history>>

clientVars == <<local_round, client_server_round, staleness, is_stale, model>>

vars == <<sessionVars, strategyVars, clientVars, round_log>>

\* ------------------------------------------------- the initial states
\* StalenessAwareAsyncFedAvg.__init__ with initial parameters given
StrategyInit ==
    /\ server_round = 0
    /\ client_rounds = << >>
    /\ staleness_stats = << >>
    /\ accepted_updates = 0
    /\ rejected_updates = 0
    /\ global_parameters = InitialParameters
    /\ parameters_history = <<InitialParameters>>

\* AsyncFlowerClient.__init__ of every client
ClientInit ==
    /\ local_round = [c \in cids |-> 0]
    /\ client_server_round = [c \in cids |-> 0]
    /\ staleness = [c \in cids |-> 0]
    /\ is_stale = [c \in cids |-> FALSE]
    /\ model = [c \in cids |-> ClientModel(c)]

\* the round loop before its first round
LoopInit ==
    /\ current_round = 1
    /\ pc = "configure_fit"
    /\ available = {}
    /\ parameters = InitialParameters
    /\ fit_ins = << >>
    /\ results = << >>
    /\ fit_return = NoValue
    /\ eval_ins = << >>
    /\ eval_results = << >>
    /\ eval_return = NoValue
    /\ round_log = << >>

Init ==
    /\ cids = 1..MaxClients
    /\ num_rounds = MaxRounds
    /\ fraction_fit \in FractionChoices
    /\ min_fit_clients \in 1..MaxClients
    /\ staleness_threshold \in 0..MaxThreshold
    /\ StrategyInit
    /\ ClientInit
    /\ LoopInit

\* ------------------------------------------------------ configure_fit
\* the sample size without its lower bound
SampleSizeNoMin(num_available, fraction, min_clients) ==
    RFloor(RMul(RInt(num_available), fraction))

\* int(client_manager.num_available() * fraction), at least the minimum
SampleSize(num_available, fraction, min_clients) ==
    Max(RFloor(RMul(RInt(num_available), fraction)), min_clients)

\* client_manager.sample(num_clients): that many of the available clients,
\* or none when fewer are available
Sample(connected, num_clients) ==
    IF num_clients > Cardinality(connected)
    THEN {{}}
    ELSE {s \in SUBSET connected : Cardinality(s) = num_clients}

\* self.client_rounds[client_id] = value on a defaultdict
SetItem(dict, key, value) ==
    [k \in DOMAIN dict \cup {key} |-> IF k = key THEN value ELSE dict[k]]

\* the config built by configure_fit and configure_evaluate; it is all
\* that the instruction returned for a client holds
FitConfig(round) ==
    [server_round |-> round, staleness_threshold |-> staleness_threshold]

\* the log's entry of a round that starts: the round number the strategy
\* took, each client's local_round when its fit began and the delay it
\* simulated, what the strategy received from whom and how the fit phase
\* ended
NewRound(round) ==
    [round |-> round, fitted |-> << >>, delays |-> << >>,
     received |-> << >>, outcome |-> "pending"]

\* the round number is not taken over
KeepServerRound(old, round) == old

\* self.server_round = server_round
AssignServerRound(old, round) == round

configure_fit(connected, clients) ==
    /\ pc = "configure_fit"
    /\ available' = connected
    /\ clients \in Sample(connected,
                          SampleSize(Cardinality(connected), fraction_fit,
                                     min_fit_clients))
    /\ server_round' = AssignServerRound(server_round, current_round)
    /\ fit_ins' = [c \in clients |-> FitConfig(current_round)]
    /\ results' = << >>
    /\ fit_return' = NoValue
    /\ eval_return' = NoValue
    /\ round_log' = Append(round_log,
                           IF clients = {}
                           THEN [NewRound(server_round')
                                   EXCEPT !.outcome = "not_configured"]
                           ELSE NewRound(server_round'))
    \* no client instructions: the loop goes on to the evaluate phase
    /\ pc' = IF clients = {} THEN "configure_evaluate" ELSE "fit_clients"
    /\ eval_results' = << >>
    /\ UNCHANGED <<cids, num_rounds, current_round, parameters, eval_ins>>
    /\ UNCHANGED <<fraction_fit, min_fit_clients, staleness_threshold,
                   client_rounds, staleness_stats, accepted_updates,
                   rejected_updates, global_parameters, parameters_history>>
    /\ UNCHANGED clientVars

\* ------------------------------------------------ AsyncFlowerClient.fit
\* the staleness taken after local_round was assigned the round
StalenessAfterUpdate(round, local) == Max(0, round - round)

\* _calculate_staleness
CalculateStaleness(round, local) == Max(0, round - local)

\* the delay makes the client's round older
SimulateDelayAges(local, delay) == local - delay

\* _simulate_delay: the client sleeps for the delay drawn; is_delayed is
\* set and cleared again, local_round is as it was
SimulateDelay(local, delay) == local

\* the too-stale path takes over the server's round
ResyncLocalRound(local, round) == round

\* the too-stale path returns before self.local_round is assigned
StaleLocalRound(local, round) == local

\* training leaves the local round as it was
UntrainedLocalRound(local, round) == local

\* self.local_round = server_round, after the training loop
TrainedLocalRound(local, round) == round

\* the instruction without c
Without(ins, c) == [d \in DOMAIN ins \ {c} |-> ins[d]]

\* fit of client c, which draws the delay (0: it is not delayed)
fit(c, delay) ==
    /\ pc = "fit_clients"
    /\ c \in DOMAIN fit_ins
    /\ LET config == fit_ins[c]
           s == CalculateStaleness(config.server_round,
                                   SimulateDelay(local_round[c], delay))
       IN  /\ client_server_round' =
                 [client_server_round EXCEPT ![c] = config.server_round]
           /\ staleness' = [staleness EXCEPT ![c] = s]
           /\ is_stale' = [is_stale EXCEPT ![c] = s > 0]
           /\ IF s > config.staleness_threshold
              THEN \* too stale: the old parameters, no training
                   /\ results' = Append(results,
                         [cid |-> c, parameters |-> model[c],
                          num_examples |-> DatasetSize(c), staleness |-> s,
                          is_stale |-> TRUE, needs_sync |-> TRUE])
                   /\ local_round' =
                         [local_round EXCEPT
                            ![c] = StaleLocalRound(@, config.server_round)]
                   /\ UNCHANGED model
              ELSE \* set_parameters, the training loop, local_round
                   /\ model' = [model EXCEPT
                                  ![c] = Train(c, parameters)]
                   /\ local_round' =
                         [local_round EXCEPT
                            ![c] = TrainedLocalRound(@, config.server_round)]
                   /\ results' = Append(results,
                         [cid |-> c, parameters |-> model'[c],
                          num_examples |-> DatasetSize(c), staleness |-> s,
                          is_stale |-> FALSE, needs_sync |-> FALSE])
    /\ fit_ins' = Without(fit_ins, c)
    /\ round_log' = [round_log EXCEPT
                        ![Len(round_log)].fitted =
                            SetItem(@, c, local_round[c]),
                        ![Len(round_log)].delays = SetItem(@, c, delay)]
    /\ UNCHANGED <<cids, num_rounds, current_round, pc, available,
                   parameters,
                   fit_return, eval_ins, eval_results, eval_return>>
    /\ UNCHANGED strategyVars

\* a configured client that fails to answer: it is counted among the
\* failures of the round, not among the results
fit_failure(c) ==
    /\ pc = "fit_clients"
    /\ c \in DOMAIN fit_ins
    /\ fit_ins' = Without(fit_ins, c)
    /\ UNCHANGED <<cids, num_rounds, current_round, pc, available,
                   parameters, results,
                   fit_return, eval_ins, eval_results, eval_return>>
    /\ UNCHANGED strategyVars
    /\ UNCHANGED clientVars
    /\ UNCHANGED round_log

\* a vector of n tensors, different for every client
AnyVector(c, n) == [j \in 1..n |-> RInt(c + j)]

\* what a client of any kind may answer to a fit: the strategy reads
\* fit_res.num_examples, fit_res.parameters and, from fit_res.metrics,
\* staleness and is_stale as they come
FitResults(c) ==
    {[cid |-> c, parameters |-> AnyVector(c, n), num_examples |-> k,
      staleness |-> st, is_stale |-> b, needs_sync |-> b] :
        n \in 1..MaxTensors, k \in (0 - 1)..MaxSamples,
        st \in {0, MaxThreshold + 1}, b \in BOOLEAN}

\* a configured client that is not an AsyncFlowerClient answers
fit_any(c, fit_res) ==
    /\ pc = "fit_clients"
    /\ c \in DOMAIN fit_ins
    /\ results' = Append(results, fit_res)
    /\ fit_ins' = Without(fit_ins, c)
    /\ UNCHANGED <<cids, num_rounds, current_round, pc, available,
                   parameters,
                   fit_return, eval_ins, eval_results, eval_return>>
    /\ UNCHANGED strategyVars
    /\ UNCHANGED clientVars
    /\ UNCHANGED round_log

\* ------------------------------------------------------- aggregate_fit
\* the staleness check one round too lenient
TooStaleLate(fit_res, threshold) ==
    fit_res.is_stale /\ fit_res.staleness > threshold + 1

\* the staleness check without the client's flag, off by one
TooStaleAtThreshold(fit_res, threshold) ==
    fit_res.staleness >= threshold

\* the staleness check of one result: rejected when it is too stale
TooStale(fit_res, threshold) ==
    fit_res.is_stale /\ fit_res.staleness > threshold

\* self.staleness_stats[client_id].append(value) on a defaultdict(list)
AppendItem(dict, key, value) ==
    [k \in DOMAIN dict \cup {key} |->
        IF k = key
        THEN Append(IF key \in DOMAIN dict THEN dict[key] ELSE << >>, value)
        ELSE dict[k]]

\* the state of the loop over the results before its first iteration
LoopStart ==
    [client_rounds |-> client_rounds, staleness_stats |-> staleness_stats,
     accepted_updates |-> accepted_updates,
     rejected_updates |-> rejected_updates,
     parameters_list |-> << >>, weights |-> << >>,
     staleness_list |-> << >>, client_ids |-> << >>]

\* the round of the contribution itself
ClientRoundNow(round, reported) == round

\* server_round - staleness
ClientRound(round, reported) == round - reported

\* one iteration of the loop over the results
LoopBody(round, st, fit_res) ==
    LET tracked ==
            [st EXCEPT
               !.client_rounds =
                   SetItem(@, fit_res.cid,
                           ClientRound(round, fit_res.staleness)),
               !.staleness_stats =
                   AppendItem(@, fit_res.cid, fit_res.staleness)]
    IN  IF TooStale(fit_res, staleness_threshold)
        THEN [tracked EXCEPT !.rejected_updates = @ + 1]
        ELSE [tracked EXCEPT
                !.accepted_updates = @ + 1,
                !.parameters_list = Append(@, fit_res.parameters),
                !.weights = Append(@, fit_res.num_examples),
                !.staleness_list = Append(@, fit_res.staleness),
                !.client_ids = Append(@, fit_res.cid)]

\* the loop over the first n results
RECURSIVE LoopOver(_, _, _)
LoopOver(round, rs, n) ==
    IF n = 0 THEN LoopStart
    ELSE LoopBody(round, LoopOver(round, rs, n - 1), rs[n])

RECURSIVE Sum(_)
Sum(ws) == IF ws = << >> THEN 0 ELSE ws[1] + Sum(Tail(ws))

\* the same weight for every contribution
UniformWeights(weights) ==
    [i \in 1..Len(weights) |-> RDiv(1, Len(weights))]

\* the sample counts as they are
RawWeights(weights) == [i \in 1..Len(weights) |-> RInt(weights[i])]

\* w / total_weight for every weight
NormalizedWeights(weights) ==
    [i \in 1..Len(weights) |-> RDiv(weights[i], Sum(weights))]

\* the fold starts from the first accepted vector itself
StartFromFirst(params) == params

\* np.zeros_like of every tensor element of the first accepted vector
ZerosLike(params) == [j \in 1..Len(params) |-> RInt(0)]

\* aggregated[j] += weight * param for every tensor j of one vector; a
\* tensor beyond those of aggregated is an IndexError, after which
\* aggregated stays as far as it was folded; acc is computed once
FoldOne(acc, weight, params) ==
    LET Fold(a) ==
            IF a.error THEN a
            ELSE [error |-> Len(params) > Len(a.aggregated),
                  aggregated |->
                      [j \in 1..Len(a.aggregated) |->
                          IF j <= Len(params)
                          THEN RAdd(a.aggregated[j],
                                    RMul(weight, params[j]))
                          ELSE a.aggregated[j]]]
    IN  CHOOSE r \in {Fold(a) : a \in {acc}} : TRUE

\* the loop over the first n accepted vectors, from zeros laid out as the
\* first of them
RECURSIVE Accumulate(_, _, _)
Accumulate(parameters_list, normalized_weights, n) ==
    IF n = 0
    THEN [error |-> FALSE, aggregated |-> ZerosLike(parameters_list[1])]
    ELSE FoldOne(Accumulate(parameters_list, normalized_weights, n - 1),
                 normalized_weights[n], parameters_list[n])

\* the weighted FedAvg of the accepted vectors; w / total_weight is a
\* ZeroDivisionError when the weights sum to 0
WeightedAverage(parameters_list, weights) ==
    IF Sum(weights) = 0
    THEN [error |-> TRUE, aggregated |-> << >>]
    ELSE Accumulate(parameters_list, NormalizedWeights(weights),
                    Len(parameters_list))

\* no exception ends the aggregation
NeverRaised(fold) == FALSE

\* an exception leaves aggregate_fit before the lines that publish
Raised(fold) == fold.error

\* what the round's log keeps of one result
Received(fit_res, accepted) ==
    [staleness |-> fit_res.staleness, is_stale |-> fit_res.is_stale,
     accepted |-> accepted]

Range(seq) == {seq[i] : i \in 1..Len(seq)}

RECURSIVE ReceivedFrom(_, _, _)
ReceivedFrom(rs, n, client_ids) ==
    IF n = 0 THEN << >>
    ELSE SetItem(ReceivedFrom(rs, n - 1, client_ids), rs[n].cid,
                 Received(rs[n], rs[n].cid \in Range(client_ids)))

LogFit(outcome, client_ids) ==
    [round_log EXCEPT ![Len(round_log)] =
        [@ EXCEPT !.received = ReceivedFrom(results, Len(results), client_ids),
                  !.outcome = outcome]]

\* the empty result list is not told apart
NeverNoResults(rs) == FALSE

\* if not results
NoResults(rs) == Len(rs) = 0

\* aggregation is skipped only when nothing was accepted
SkipsOnlyWhenEmpty(num_accepted, min_clients) == num_accepted = 0

\* len(parameters_list) < self.min_fit_clients
SkipAggregation(num_accepted, min_clients) == num_accepted < min_clients

\* the last vector of the history is replaced
HistoryReplaceLast(history, published) ==
    [history EXCEPT ![Len(history)] = published]

\* self.parameters_history.append(self.global_parameters)
HistoryAppend(history, published) == Append(history, published)

\* the loop takes over what aggregate_fit returned, unless it is None
TakeOver(returned) ==
    /\ fit_return' = returned
    /\ parameters' = IF returned = NoValue THEN parameters ELSE returned[1]
    /\ pc' = "configure_evaluate"

aggregate_fit ==
    /\ pc = "fit_clients"
    /\ DOMAIN fit_ins = {}
    /\ IF NoResults(results)
       THEN \* no training results received
            /\ TakeOver(NoValue)
            /\ round_log' = LogFit("no_results", << >>)
            /\ UNCHANGED <<client_rounds, staleness_stats, accepted_updates,
                           rejected_updates, global_parameters,
                           parameters_history>>
       ELSE LET st == LoopOver(current_round, results, Len(results))
            IN  /\ client_rounds' = st.client_rounds
                /\ staleness_stats' = st.staleness_stats
                /\ accepted_updates' = st.accepted_updates
                /\ rejected_updates' = st.rejected_updates
                /\ IF SkipAggregation(Len(st.parameters_list), min_fit_clients)
                   THEN \* skipping aggregation, keeping global params
                        /\ TakeOver(Some(global_parameters))
                        /\ round_log' = LogFit("skipped", st.client_ids)
                        /\ UNCHANGED <<global_parameters, parameters_history>>
                   ELSE LET fold ==
                                WeightedAverage(st.parameters_list, st.weights)
                        IN  IF Raised(fold)
                            THEN \* the exception ends the round loop
                                 /\ pc' = "failed"
                                 /\ round_log' =
                                        LogFit("failed", st.client_ids)
                                 /\ UNCHANGED <<parameters, fit_return,
                                                global_parameters,
                                                parameters_history>>
                            ELSE /\ global_parameters' = fold.aggregated
                                 /\ parameters_history' =
                                        HistoryAppend(parameters_history,
                                                      fold.aggregated)
                                 /\ TakeOver(Some(fold.aggregated))
                                 /\ round_log' =
                                        LogFit("aggregated", st.client_ids)
    /\ available' = {}
    /\ UNCHANGED <<cids, num_rounds, current_round, fit_ins, results,
                   eval_ins, eval_results, eval_return>>
    /\ UNCHANGED <<fraction_fit, min_fit_clients, staleness_threshold,
                   server_round>>
    /\ UNCHANGED clientVars

\* -------------------------------------------------- the evaluate phase
\* the loop goes on for one round more
AfterRoundOneMore(round, rounds) ==
    IF round = rounds + 1 THEN "done" ELSE "configure_fit"

\* the loop of ServerConfig(num_rounds): after round num_rounds it is over
AfterRound(round, rounds) ==
    IF round = rounds THEN "done" ELSE "configure_fit"

configure_evaluate(connected, clients) ==
    /\ pc = "configure_evaluate"
    /\ available' = {}
    /\ clients \in Sample(connected,
                          SampleSize(Cardinality(connected), FractionEvaluate,
                                     MinEvaluateClientsDefault))
    /\ results' = << >>
    /\ fit_return' = NoValue
    /\ eval_ins' = [c \in clients |-> FitConfig(current_round)]
    /\ eval_results' = << >>
    \* no client instructions: the round is over
    /\ IF clients = {}
       THEN /\ pc' = AfterRound(current_round, num_rounds)
            /\ current_round' = current_round + 1
       ELSE /\ pc' = "evaluate_clients"
            /\ UNCHANGED current_round
    /\ UNCHANGED <<cids, num_rounds, parameters, fit_ins, eval_return>>
    /\ UNCHANGED strategyVars
    /\ UNCHANGED clientVars
    /\ UNCHANGED round_log

\* AsyncFlowerClient.evaluate
evaluate(c) ==
    /\ pc = "evaluate_clients"
    /\ c \in DOMAIN eval_ins
    /\ model' = [model EXCEPT ![c] = parameters]
    /\ eval_results' = Append(eval_results,
                              [cid |-> c, num_examples |-> DatasetSize(c),
                               metrics |->
                                   [accuracy |-> Accuracy(c, model'[c]),
                                    staleness |-> staleness[c]]])
    /\ eval_ins' = Without(eval_ins, c)
    /\ UNCHANGED <<cids, num_rounds, current_round, pc, available,
                   parameters, fit_ins,
                   results, fit_return, eval_return>>
    /\ UNCHANGED strategyVars
    /\ UNCHANGED <<local_round, client_server_round, staleness, is_stale>>
    /\ UNCHANGED round_log

\* what a client of any kind may answer to an evaluation: a sample count
\* and metrics with or without an accuracy
EvaluateResults(c) ==
    {[cid |-> c, num_examples |-> k, metrics |-> m] :
        k \in 1..MaxSamples,
        m \in {<< >>} \cup {[accuracy |-> RDiv(a, c + 1)] : a \in 0..(c + 1)}}

\* a configured client that is not an AsyncFlowerClient answers
evaluate_any(c, eval_res) ==
    /\ pc = "evaluate_clients"
    /\ c \in DOMAIN eval_ins
    /\ eval_results' = Append(eval_results, eval_res)
    /\ eval_ins' = Without(eval_ins, c)
    /\ UNCHANGED <<cids, num_rounds, current_round, pc, available,
                   parameters, fit_ins,
                   results, fit_return, eval_return>>
    /\ UNCHANGED strategyVars
    /\ UNCHANGED clientVars
    /\ UNCHANGED round_log

evaluate_failure(c) ==
    /\ pc = "evaluate_clients"
    /\ c \in DOMAIN eval_ins
    /\ eval_ins' = Without(eval_ins, c)
    /\ UNCHANGED <<cids, num_rounds, current_round, pc, available,
                   parameters, fit_ins,
                   results, fit_return, eval_results, eval_return>>
    /\ UNCHANGED strategyVars
    /\ UNCHANGED clientVars
    /\ UNCHANGED round_log

RECURSIVE RSum(_)
RSum(xs) == IF xs = << >> THEN RInt(0) ELSE RAdd(xs[1], RSum(Tail(xs)))

\* the accuracies added up
Total(xs) == RSum(xs)

\* np.mean
Mean(xs) == RMul(RSum(xs), RDiv(1, Len(xs)))

\* dict.get(key, default)
Get(dict, key, default) == IF key \in DOMAIN dict THEN dict[key] ELSE default

\* the evaluation results are counted as accepted updates
EvaluateCounts ==
    /\ accepted_updates' = accepted_updates + Len(eval_results)
    /\ UNCHANGED <<fraction_fit, min_fit_clients, staleness_threshold,
                   server_round, client_rounds, staleness_stats,
                   rejected_updates, global_parameters, parameters_history>>

\* aggregate_evaluate assigns no attribute of the strategy
EvaluateKeeps == UNCHANGED strategyVars

aggregate_evaluate ==
    /\ pc = "evaluate_clients"
    /\ DOMAIN eval_ins = {}
    /\ eval_return' =
          IF eval_results = << >>
          THEN NoValue
          ELSE Some(Mean([i \in 1..Len(eval_results) |->
                             Get(eval_results[i].metrics, "accuracy",
                                 RInt(0))]))
    /\ pc' = AfterRound(current_round, num_rounds)
    /\ current_round' = current_round + 1
    /\ eval_results' = << >>
    /\ UNCHANGED <<cids, num_rounds, available, parameters, fit_ins,
                   results, fit_return, eval_ins>>
    /\ EvaluateKeeps
    /\ UNCHANGED clientVars
    /\ UNCHANGED round_log

\* ---------------------------------------------------- the specification
\* the session in which clients may be away when a phase is configured and
\* configured clients may fail to answer a fit; evaluations are answered
\* and the clients have the default delay_probability, 0
Next ==
    \/ \E connected \in SUBSET cids : \E clients \in SUBSET connected :
          configure_fit(connected, clients)
    \/ \E c \in cids : fit(c, 0)
    \/ \E c \in cids : fit_failure(c)
    \/ aggregate_fit
    \/ \E connected \in SUBSET cids : \E clients \in SUBSET connected :
          configure_evaluate(connected, clients)
    \/ \E c \in cids : evaluate(c)
    \/ aggregate_evaluate

Spec == Init /\ [][Next]_vars

\* ---------------------------------------------------------- scenarios
\* the session wired as start_async_server wires it, but for min_fit_clients
SessionInit(rounds, thresholds) ==
    /\ cids = 1..NumClientsDefault
    /\ num_rounds = rounds
    /\ fraction_fit = <<1, 1>>
    /\ min_fit_clients \in 1..NumClientsDefault
    /\ staleness_threshold \in thresholds
    /\ StrategyInit
    /\ ClientInit
    /\ LoopInit

\* the client that joins late
Straggler == NumClientsDefault

\* scenario A: the default threshold, and one client that may be away when
\* a phase is configured or fail to answer; every other client answers
InitA ==
    SessionInit(StalenessThresholdDefault + 1, {StalenessThresholdDefault})

NextA ==
    \/ \E connected \in {cids, cids \ {Straggler}} :
       \E clients \in SUBSET connected : configure_fit(connected, clients)
    \/ \E c \in cids : fit(c, 0)
    \/ fit_failure(Straggler)
    \/ aggregate_fit
    \/ \E connected \in {cids, cids \ {Straggler}} :
       \E clients \in SUBSET connected :
          configure_evaluate(connected, clients)
    \/ \E c \in cids : evaluate(c)
    \/ aggregate_evaluate

SpecA == InitA /\ [][NextA]_vars

\* scenario D: the default number of rounds; every client is connected in
\* every round and every configured client answers
InitD == SessionInit(NumRoundsDefault, 0..StalenessThresholdDefault)

NextD ==
    \/ \E clients \in SUBSET cids : configure_fit(cids, clients)
    \/ \E c \in cids : fit(c, 0)
    \/ aggregate_fit
    \/ \E clients \in SUBSET cids : configure_evaluate(cids, clients)
    \/ \E c \in cids : evaluate(c)
    \/ aggregate_evaluate

SpecD == InitD /\ [][NextD]_vars

\* scenario T: sessions of two clients and any number of rounds in which
\* every phase that was begun comes to its end: a configured client answers
\* or fails, and the loop goes on when no instruction is left
InitT ==
    /\ cids = {1, 2}
    /\ num_rounds \in 1..MaxRounds
    /\ fraction_fit \in FractionChoices
    /\ min_fit_clients \in {1, 2}
    /\ staleness_threshold \in 0..MaxThreshold
    /\ StrategyInit
    /\ ClientInit
    /\ LoopInit

SpecT == InitT /\ [][Next]_vars /\ WF_vars(Next)

\* scenario E: the sessions of scenario T in which a client configured for
\* an evaluation may fail to answer as well
NextE ==
    \/ Next
    \/ \E c \in cids : evaluate_failure(c)

SpecE == InitT /\ [][NextE]_vars

\* scenario R: sessions of two clients that last long enough for a client
\* whose contribution was accepted to fall behind the threshold
InitR ==
    /\ cids = {1, 2}
    /\ num_rounds = MaxThreshold + 2
    /\ fraction_fit \in FractionChoices
    /\ min_fit_clients \in {1, 2}
    /\ staleness_threshold \in 0..MaxThreshold
    /\ StrategyInit
    /\ ClientInit
    /\ LoopInit

SpecR == InitR /\ [][Next]_vars

\* scenario Y: the sessions of scenario T with clients that are created
\* with a delay_probability above 0 and may simulate a delay in any fit
NextY ==
    \/ \E connected \in SUBSET cids : \E clients \in SUBSET connected :
          configure_fit(connected, clients)
    \/ \E c \in cids : \E delay \in 0..MaxDelay : fit(c, delay)
    \/ \E c \in cids : fit_failure(c)
    \/ aggregate_fit
    \/ \E connected \in SUBSET cids : \E clients \in SUBSET connected :
          configure_evaluate(connected, clients)
    \/ \E c \in cids : evaluate(c)
    \/ aggregate_evaluate

SpecY == InitT /\ [][NextY]_vars

\* scenario F: the fit phase of the first round with two clients of any
\* kind, each of which answers as it likes or fails to answer
InitF ==
    /\ cids = {1, 2}
    /\ num_rounds = 1
    /\ fraction_fit = <<1, 1>>
    /\ min_fit_clients \in {1, 2}
    /\ staleness_threshold \in 0..MaxThreshold
    /\ StrategyInit
    /\ ClientInit
    /\ LoopInit

NextF ==
    \/ \E clients \in SUBSET cids : configure_fit(cids, clients)
    \/ \E c \in cids : \E fit_res \in FitResults(c) : fit_any(c, fit_res)
    \/ \E c \in cids : fit_failure(c)
    \/ aggregate_fit

SpecF == InitF /\ [][NextF]_vars

\* scenario V: one round of two clients whose evaluation phase is answered
\* by clients of any kind, each of which answers as it likes or fails to
\* answer
NextV ==
    \/ \E clients \in SUBSET cids : configure_fit(cids, clients)
    \/ \E c \in cids : fit(c, 0)
    \/ aggregate_fit
    \/ \E clients \in SUBSET cids : configure_evaluate(cids, clients)
    \/ \E c \in cids : evaluate(c)
    \/ \E c \in cids : \E eval_res \in EvaluateResults(c) :
          evaluate_any(c, eval_res)
    \/ \E c \in cids : evaluate_failure(c)
    \/ aggregate_evaluate

SpecV == InitF /\ [][NextV]_vars

\* ------------------------------------------------------ the properties
\* the log's entry of the round in progress
LastRound == round_log[Len(round_log)]

\* the staleness of client c's contribution in the log's entry e, by the
\* local round the client had when its fit began
Lag(e, c) == e.round - e.fitted[c]

\* the clients of entry e whose contribution is within the threshold
WithinThreshold(e) ==
    {c \in DOMAIN e.fitted : Lag(e, c) <= staleness_threshold}

\* the step in which aggregate_fit runs
AggregateFitStep == pc = "fit_clients" /\ pc' # "fit_clients"

\* C1: a contribution is accepted by aggregate_fit if and only if
\* serverRound - localRound <= stalenessThreshold, localRound being the
\* client's local round when it computed the contribution; so staleness ==
\* threshold is accepted and staleness == threshold + 1 is rejected.
C1_AcceptIffWithinThreshold ==
    \A i \in DOMAIN round_log : \A c \in DOMAIN round_log[i].received :
        round_log[i].received[c].accepted
            <=> round_log[i].round - round_log[i].fitted[c]
                    <= staleness_threshold

C1_Witness ==
    /\ \E i \in DOMAIN round_log : \E c \in DOMAIN round_log[i].received :
          /\ round_log[i].received[c].accepted
          /\ Lag(round_log[i], c) = staleness_threshold
    /\ \E i \in DOMAIN round_log : \E c \in DOMAIN round_log[i].received :
          /\ ~round_log[i].received[c].accepted
          /\ Lag(round_log[i], c) = staleness_threshold + 1

\* C2: a client whose contribution was rejected as too stale in round r
\* and that is selected and answers in every later round of the session
\* has a later contribution accepted.
C2_RejectionRecovers ==
    pc = "done" =>
        \A i \in DOMAIN round_log : \A c \in DOMAIN round_log[i].received :
            (/\ ~round_log[i].received[c].accepted
             /\ i < Len(round_log)
             /\ \A j \in (i + 1)..Len(round_log) :
                   c \in DOMAIN round_log[j].received)
            => \E j \in (i + 1)..Len(round_log) :
                   round_log[j].received[c].accepted

\* C3: when contributions arrive but fewer than min_fit_clients of them are
\* within the threshold, aggregate_fit returns the previous global vector,
\* the history does not grow, the loop goes on to the evaluate phase, and
\* the round after a skipped round has the next server round.
C3_SkipKeepsVector ==
    /\ [][(/\ AggregateFitStep
           /\ Len(results) > 0
           /\ Cardinality(WithinThreshold(LastRound)) < min_fit_clients)
          => /\ fit_return' = Some(global_parameters)
             /\ global_parameters' = global_parameters
             /\ parameters_history' = parameters_history
             /\ parameters' = parameters
             /\ pc' = "configure_evaluate"]_vars
    /\ [](\A i \in 1..(Len(round_log) - 1) :
            round_log[i].outcome = "skipped"
                => round_log[i + 1].round = round_log[i].round + 1)

C3_Witness ==
    \E i \in 1..(Len(round_log) - 1) :
        /\ round_log[i].outcome = "skipped"
        /\ DOMAIN round_log[i].received # {}
        /\ Cardinality(WithinThreshold(round_log[i])) < min_fit_clients
        /\ Len(parameters_history) = 1

\* the contributions of this round that aggregate_fit accepted
AcceptedResults ==
    SelectSeq(results, LAMBDA r : LastRound.received[r.cid].accepted)

\* sum_i(sampleCount_i * x_i[j]) over the contributions rs
RECURSIVE WeightedSum(_, _)
WeightedSum(rs, j) ==
    IF rs = << >> THEN RInt(0)
    ELSE RAdd(RMul(RInt(rs[1].num_examples), rs[1].parameters[j]),
              WeightedSum(Tail(rs), j))

RECURSIVE SampleTotal(_)
SampleTotal(rs) ==
    IF rs = << >> THEN 0 ELSE rs[1].num_examples + SampleTotal(Tail(rs))

\* the sample-count-weighted mean of the contributions rs
WeightedMean(rs) ==
    [j \in 1..Len(rs[1].parameters) |->
        RMul(WeightedSum(rs, j), RDiv(1, SampleTotal(rs)))]

FitAggregated ==
    pc = "configure_evaluate" /\ LastRound.outcome = "aggregated"

\* C4: every element of the vector aggregate_fit produces is the
\* sample-count-weighted mean of that element over the accepted
\* contributions, and the normalized weights sum to 1.
C4_WeightedMean ==
    FitAggregated =>
        /\ global_parameters = WeightedMean(AcceptedResults)
        /\ RSum(NormalizedWeights(
                  [i \in 1..Len(AcceptedResults) |->
                      AcceptedResults[i].num_examples])) = RInt(1)

C4_Witness ==
    /\ FitAggregated
    /\ \E i, k \in 1..Len(AcceptedResults) :
          /\ AcceptedResults[i].num_examples # AcceptedResults[k].num_examples
          /\ AcceptedResults[i].parameters # AcceptedResults[k].parameters
    /\ global_parameters = WeightedMean(AcceptedResults)

\* C5: the number of vectors published never decreases, and it changes in
\* a round only if contributions arrived and at least min_fit_clients of
\* them were within the threshold.
C5_VersionMonotone ==
    [][/\ Len(parameters_history') >= Len(parameters_history)
       /\ Len(parameters_history') # Len(parameters_history)
            => /\ AggregateFitStep
               /\ Len(results) > 0
               /\ Cardinality(WithinThreshold(LastRound)) >= min_fit_clients
       /\ (AggregateFitStep
           /\ (\/ Len(results) = 0
               \/ Cardinality(WithinThreshold(LastRound)) < min_fit_clients))
            => parameters_history' = parameters_history]_vars

C5_Witness ==
    /\ Len(parameters_history) = 2
    /\ Len(round_log) = 2
    /\ round_log[1].outcome = "aggregated"
    /\ round_log[2].outcome \in {"skipped", "no_results"}

\* C6: server_round never decreases, it advances by exactly 1 when a round
\* begins and in no other step, and it counts the rounds begun whatever
\* their outcome.
C6_ServerRoundAdvances ==
    /\ [][\/ server_round' = server_round
          \/ server_round' = server_round + 1 /\ pc = "configure_fit"]_vars
    /\ [](server_round =
             IF pc = "configure_fit" THEN current_round - 1
             ELSE IF pc = "done" THEN num_rounds ELSE current_round)

C6_Witness ==
    /\ pc = "done"
    /\ server_round = num_rounds
    /\ \E i, k \in DOMAIN round_log :
          /\ round_log[i].outcome = "aggregated"
          /\ round_log[k].outcome \in {"skipped", "no_results"}

\* C9: with zero contributions aggregate_fit returns no vector and leaves
\* the global parameters, the history, the counters and the client
\* records unchanged.
C9_NoResultsKeepsAll ==
    [][(AggregateFitStep /\ Len(results) = 0)
          => /\ fit_return' = NoValue
             /\ parameters' = parameters
             /\ UNCHANGED <<global_parameters, parameters_history,
                            accepted_updates, rejected_updates,
                            client_rounds, staleness_stats>>]_vars

C9_Witness ==
    /\ pc = "configure_evaluate"
    /\ LastRound.outcome = "no_results"
    /\ fit_return = NoValue
    /\ Len(parameters_history) = 2
    /\ parameters = parameters_history[2]
    /\ accepted_updates > 0

\* the step in which configure_fit runs
ConfigureFitStep == pc = "configure_fit" /\ pc' # "configure_fit"

\* max(floor(availableClients * fractionFit), minFitClients)
RequestedSize(num_available) ==
    Max((num_available * fraction_fit[1]) \div fraction_fit[2],
        min_fit_clients)

OneTooStale(s) ==
    /\ Len(results) = NumClientsDefault
    /\ Lag(LastRound, s) = StalenessThresholdDefault + 1
    /\ \A c \in DOMAIN LastRound.fitted \ {s} :
          Lag(LastRound, c) <= StalenessThresholdDefault

\* the contributions of this round but that of client s
ResultsBut(s) == SelectSeq(results, LAMBDA r : r.cid # s)

\* C7: 4 clients, threshold 2, exactly one contribution 3 rounds behind:
\* it is rejected, rejected_updates grows by exactly 1, and with
\* min_fit_clients <= 3 the new global vector is the weighted mean of the
\* other three contributions.
C7_OneStaleOfFour ==
    [][\A s \in cids :
          (AggregateFitStep /\ OneTooStale(s))
             => /\ rejected_updates' = rejected_updates + 1
                /\ accepted_updates' =
                      accepted_updates + (NumClientsDefault - 1)
                /\ ~round_log'[Len(round_log)].received[s].accepted
                /\ min_fit_clients <= NumClientsDefault - 1
                      => /\ global_parameters' = WeightedMean(ResultsBut(s))
                         /\ fit_return' = Some(global_parameters')
                         /\ parameters_history' =
                               Append(parameters_history, global_parameters')
          ]_vars

C7_Witness ==
    /\ staleness_threshold = StalenessThresholdDefault
    /\ Cardinality(cids) = NumClientsDefault
    /\ pc = "configure_evaluate"
    /\ OneTooStale(Straggler)
    /\ ~LastRound.received[Straggler].accepted
    /\ rejected_updates = 1
    /\ min_fit_clients <= NumClientsDefault - 1
    /\ global_parameters = WeightedMean(ResultsBut(Straggler))
    /\ global_parameters # WeightedMean(results)

\* every client's contribution arrived in every round of the session
AllRespond ==
    /\ Len(round_log) = num_rounds
    /\ \A i \in DOMAIN round_log : DOMAIN round_log[i].received = cids

\* no contribution of the session was reported stale
NeverStale ==
    \A i \in DOMAIN round_log : \A c \in DOMAIN round_log[i].received :
        ~round_log[i].received[c].is_stale

\* C8: 4 clients, 5 rounds, every client answers in every round and no
\* contribution is reported stale: at the end rejected_updates is 0 and
\* accepted_updates is 5 * 4 = 20.
C8_AllAccepted ==
    (pc = "done" /\ AllRespond /\ NeverStale)
        => /\ rejected_updates = 0
           /\ accepted_updates = NumRoundsDefault * NumClientsDefault

C8_Witness ==
    /\ pc = "done"
    /\ Cardinality(cids) = NumClientsDefault
    /\ num_rounds = NumRoundsDefault
    /\ AllRespond
    /\ NeverStale
    /\ rejected_updates = 0
    /\ accepted_updates = NumRoundsDefault * NumClientsDefault

\* the contributions of this round that the aggregate_fit of this step
\* accepts
AcceptedNow ==
    SelectSeq(results,
              LAMBDA r : round_log'[Len(round_log)].received[r.cid].accepted)

\* sum_i(sampleCount_i * x_i[j]) over the contributions of rs that have a
\* tensor j
RECURSIVE FoldedSum(_, _)
FoldedSum(rs, j) ==
    IF rs = << >> THEN RInt(0)
    ELSE RAdd(IF j <= Len(rs[1].parameters)
              THEN RMul(RInt(rs[1].num_examples), rs[1].parameters[j])
              ELSE RInt(0),
              FoldedSum(Tail(rs), j))

\* every tensor of every contribution of rs folded with its share of the
\* sample total, in the layout of the first; the weighted mean when the
\* layouts agree
FoldedMean(rs) ==
    [j \in 1..Len(rs[1].parameters) |->
        RMul(FoldedSum(rs, j), RDiv(1, SampleTotal(rs)))]

\* C11: aggregate_fit either leaves the global vector and the history as
\* they were or publishes the vector into which every accepted
\* contribution of the round was folded completely, appending it to the
\* history; when an error ends the aggregation part-way, nothing is
\* published and the history does not grow; in every step the global
\* vector is the last of the history.
C11_AtomicAggregation ==
    /\ [][AggregateFitStep =>
             /\ \/ UNCHANGED <<global_parameters, parameters_history>>
                \/ /\ pc' # "failed"
                   /\ global_parameters' = FoldedMean(AcceptedNow)
                   /\ parameters_history' =
                         Append(parameters_history, global_parameters')
             /\ pc' = "failed"
                   => UNCHANGED <<global_parameters, parameters_history,
                                  parameters>>]_vars
    /\ [](global_parameters = parameters_history[Len(parameters_history)])

\* the aggregation began to fold and then failed on the second accepted
\* contribution
C11_Witness ==
    /\ pc = "failed"
    /\ Len(AcceptedResults) = 2
    /\ AcceptedResults[1].num_examples > 0
    /\ AcceptedResults[2].num_examples > 0
    /\ Len(AcceptedResults[1].parameters) < Len(AcceptedResults[2].parameters)
    /\ global_parameters = InitialParameters
    /\ parameters_history = <<InitialParameters>>

\* C12: every instruction of a fit phase carries the server round of the
\* phase, the staleness threshold and the current global parameter vector,
\* so all clients of a round are configured alike.
C12_SameSnapshot ==
    \A c \in DOMAIN fit_ins :
        /\ fit_ins[c].server_round = server_round
        /\ fit_ins[c].staleness_threshold = staleness_threshold
        /\ "parameters" \in DOMAIN fit_ins[c]
        /\ fit_ins[c].parameters = global_parameters

\* C13: a session of num_rounds rounds in which every phase comes to its
\* end reaches the terminal state; when it does, exactly num_rounds fit
\* phases were begun, numbered 1..num_rounds, and num_rounds evaluate phases
\* were ended, whatever the outcome of each round; no step follows.
C13_ExactlyNumRounds ==
    /\ <>(pc = "done")
    /\ [](pc = "done" => /\ Len(round_log) = num_rounds
                         /\ current_round = num_rounds + 1)
    /\ [](/\ Len(round_log) <= num_rounds
          /\ \A i \in DOMAIN round_log : round_log[i].round = i)
    /\ [][pc # "done"]_vars

C13_Witness ==
    /\ pc = "done"
    /\ num_rounds = MaxRounds
    /\ Len(round_log) = num_rounds
    /\ \E i \in DOMAIN round_log : round_log[i].outcome = "no_results"
    /\ \E i \in DOMAIN round_log : round_log[i].outcome = "skipped"

\* a step of the evaluation phase: configure_evaluate, a client's answer
\* or failure, aggregate_evaluate
EvaluatePhaseStep == pc \in {"configure_evaluate", "evaluate_clients"}

\* C14: no step of the evaluation phase, whatever the evaluation results
\* are, changes the global parameter vector, the history, the server
\* round, the accepted and rejected counters or the client records.
C14_EvaluateKeepsTraining ==
    [][EvaluatePhaseStep
          => UNCHANGED <<global_parameters, parameters_history, parameters,
                         server_round, accepted_updates, rejected_updates,
                         client_rounds, staleness_stats>>]_vars

\* a session with two evaluation phases behind it, of which the last
\* aggregated results, and with a training state that is not the initial one
C14_Witness ==
    /\ pc = "done"
    /\ num_rounds > 1
    /\ eval_return # NoValue
    /\ Len(parameters_history) > 1
    /\ accepted_updates > 0
    /\ rejected_updates > 0
    /\ DOMAIN client_rounds = cids

\* C15: a contribution with a sample count of zero or less is rejected
\* and does not enter the aggregation: every contribution aggregate_fit
\* accepted has a positive sample count, and so has their total.
C15_PositiveWeights ==
    pc \in {"configure_evaluate", "failed"}
        => /\ \A i \in 1..Len(AcceptedResults) :
                 AcceptedResults[i].num_examples > 0
           /\ LastRound.outcome \in {"aggregated", "failed"}
                 => SampleTotal(AcceptedResults) > 0

\* the contributions of this round whose number of tensors is not that of
\* the global parameter vector
Mismatched ==
    {i \in 1..Len(results) :
        Len(results[i].parameters) # Len(global_parameters)}

\* C16: a contribution whose layout is not that of the global parameter
\* vector is dropped and counted as rejected, the round is completed with
\* the other contributions, and the vector published keeps the layout.
C16_MismatchDropped ==
    [][(AggregateFitStep /\ Mismatched # {})
          => /\ pc' = "configure_evaluate"
             /\ \A i \in Mismatched :
                   ~round_log'[Len(round_log)].received[results[i].cid]
                        .accepted
             /\ rejected_updates' >=
                   rejected_updates + Cardinality(Mismatched)
             /\ Len(global_parameters') = Len(global_parameters)]_vars

\* C20: when aggregate_fit accepts a single contribution, its sample
\* count is positive and min_fit_clients is at most 1, the vector it
\* publishes and returns is exactly that contribution's vector.
C20_SingleContribution ==
    [][(/\ AggregateFitStep
        /\ Len(AcceptedNow) = 1
        /\ AcceptedNow[1].num_examples > 0
        /\ min_fit_clients <= 1)
          => /\ global_parameters' = AcceptedNow[1].parameters
             /\ fit_return' = Some(AcceptedNow[1].parameters)
             /\ parameters' = AcceptedNow[1].parameters
             /\ parameters_history' =
                   Append(parameters_history, AcceptedNow[1].parameters)
       ]_vars

\* the one accepted contribution of two, with a sample count above 1
C20_Witness ==
    /\ pc = "configure_evaluate"
    /\ min_fit_clients = 1
    /\ Len(results) = 2
    /\ Len(AcceptedResults) = 1
    /\ AcceptedResults[1].num_examples = MaxSamples
    /\ global_parameters = AcceptedResults[1].parameters
    /\ global_parameters # InitialParameters

\* ------------------------------------------- the synchronous baseline
\* FlowerClient.fit: set_parameters, the same training loop on the same
\* data, and the parameters with len(self.dataloader.dataset)
SyncFit(c, loaded) ==
    [cid |-> c, parameters |-> Train(c, loaded),
     num_examples |-> DatasetSize(c)]

\* the results of a round of the baseline in which every client answers
SyncResults(loaded) == [c \in 1..NumClientsDefault |-> SyncFit(c, loaded)]

\* the stock FedAvg: every result is aggregated, weighted by its sample
\* count
FedAvgAggregate(rs) == WeightedMean(rs)

\* the global parameters of the baseline after i rounds in which every
\* client answered
RECURSIVE SyncParameters(_)
SyncParameters(i) ==
    IF i = 0 THEN InitialParameters
    ELSE FedAvgAggregate(SyncResults(SyncParameters(i - 1)))

\* C17: with staleness_threshold = 0, in rounds in which every selected
\* client answers, the coordinator accepts every contribution, as the
\* stock FedAvg of the baseline does, and after the fit phase of round i
\* its global parameters are those of the baseline after i rounds.
C17_SyncBaseline ==
    staleness_threshold = 0
        => /\ \A i \in DOMAIN round_log :
                 \A c \in DOMAIN round_log[i].received :
                     round_log[i].received[c].accepted
           /\ (pc = "configure_evaluate" /\ min_fit_clients = Cardinality(cids))
                 => /\ global_parameters = SyncParameters(Len(round_log))
                    /\ parameters = SyncParameters(Len(round_log))

\* the rounds of the log in which a contribution of client c arrived
HeardIn(c) == {i \in DOMAIN round_log : c \in DOMAIN round_log[i].received}

\* the rounds of the log in which a contribution of client c was accepted
AcceptedIn(c) == {i \in HeardIn(c) : round_log[i].received[c].accepted}

\* the greatest element of a non-empty set of numbers
Last(S) == CHOOSE i \in S : \A k \in S : k <= i

\* C18 as amended: the clients recorded in client_rounds are those the
\* coordinator has heard from, and the record of a client is the round of
\* its latest contribution, accepted or rejected, less the staleness that
\* contribution reported: the local round the client had when it computed
\* the contribution.
C18_RecordsReportedRound ==
    /\ DOMAIN client_rounds = {c \in cids : HeardIn(c) # {}}
    /\ \A c \in DOMAIN client_rounds :
          LET latest == round_log[Last(HeardIn(c))]
          IN  /\ client_rounds[c] =
                    latest.round - latest.received[c].staleness
              /\ client_rounds[c] = latest.fitted[c]

\* a client whose contribution was accepted and whose later contribution
\* was rejected: the record is no longer the one the accepted contribution
\* left, and it never was the round of the acceptance
C18_Witness ==
    \E c \in DOMAIN client_rounds :
        /\ pc = "configure_evaluate"
        /\ AcceptedIn(c) # {}
        /\ Last(HeardIn(c)) = Len(round_log)
        /\ ~LastRound.received[c].accepted
        /\ client_rounds[c] = round_log[Last(AcceptedIn(c))].round
        /\ round_log[Last(AcceptedIn(c))].received[c].staleness > 0

\* C18 as claimed: the record of a client that had a contribution accepted
\* is the last round at which one was accepted.
C18_RecordsLastAccepted ==
    pc # "fit_clients" =>
        \A c \in DOMAIN client_rounds :
            AcceptedIn(c) # {}
                => client_rounds[c] = round_log[Last(AcceptedIn(c))].round

\* the local round of client c before the fit phase of the log's entry i,
\* by the fit configurations (server round, threshold) that were delivered
\* to it in the entries before and by nothing else
RECURSIVE LocalRoundBefore(_, _)
LocalRoundBefore(c, i) ==
    IF i = 1 THEN 0
    ELSE LET before == LocalRoundBefore(c, i - 1)
             e == round_log[i - 1]
         IN  IF c \notin DOMAIN e.fitted THEN before
             ELSE IF e.round - before > staleness_threshold THEN before
             ELSE e.round

\* C19: whatever delays a client simulates, its local round before every
\* fit, the staleness it reports and the decision of aggregate_fit are
\* those determined by the sequence of fit configurations delivered to it.
C19_StalenessByRoundsOnly ==
    /\ \A c \in cids :
          local_round[c] = LocalRoundBefore(c, Len(round_log) + 1)
    /\ \A i \in DOMAIN round_log :
          /\ \A c \in DOMAIN round_log[i].fitted :
                round_log[i].fitted[c] = LocalRoundBefore(c, i)
          /\ \A c \in DOMAIN round_log[i].received :
                /\ round_log[i].received[c].staleness =
                      Max(0, round_log[i].round - LocalRoundBefore(c, i))
                /\ round_log[i].received[c].accepted
                      <=> round_log[i].received[c].staleness
                              <= staleness_threshold

\* two clients were delivered the same configurations, one simulated a
\* delay in the last round and the other did not, and both reported the
\* same staleness; a client that simulated delays in every round of a
\* session reported a staleness of 1 in each
C19_Witness ==
    /\ pc = "done"
    /\ num_rounds = MaxRounds
    /\ \A i \in DOMAIN round_log : DOMAIN round_log[i].received = cids
    /\ \A i \in DOMAIN round_log :
          /\ round_log[i].delays[1] = MaxDelay
          /\ round_log[i].received[1].staleness = 1
    /\ LastRound.delays[2] = 0
    /\ LastRound.received[2].staleness = LastRound.received[1].staleness
    /\ LastRound.received[2].accepted = LastRound.received[1].accepted

\* the lists that hold the results rs in any order
Reordered(rs) ==
    {[i \in 1..Len(rs) |-> rs[p[i]]] :
        p \in {q \in [1..Len(rs) -> 1..Len(rs)] :
                  \A i, k \in 1..Len(rs) : q[i] = q[k] => i = k}}

\* the results rs have the same number of tensors
SameLayout(rs) ==
    \A i, k \in 1..Len(rs) :
        Len(rs[i].parameters) = Len(rs[k].parameters)

\* what aggregate_fit does when it is called in this state with the
\* results rs: whom it accepts, the counters and records it leaves, and
\* what it returns
AggregateFitOf(rs) ==
    IF NoResults(rs)
    THEN [accepted |-> {}, accepted_updates |-> accepted_updates,
          rejected_updates |-> rejected_updates,
          client_rounds |-> client_rounds,
          staleness_stats |-> staleness_stats,
          raised |-> FALSE, returned |-> NoValue]
    ELSE LET st == LoopOver(current_round, rs, Len(rs))
             skip == SkipAggregation(Len(st.parameters_list),
                                     min_fit_clients)
             fold == IF skip THEN [error |-> FALSE, aggregated |-> << >>]
                     ELSE WeightedAverage(st.parameters_list, st.weights)
         IN  [accepted |-> Range(st.client_ids),
              accepted_updates |-> st.accepted_updates,
              rejected_updates |-> st.rejected_updates,
              client_rounds |-> st.client_rounds,
              staleness_stats |-> st.staleness_stats,
              raised |-> Raised(fold),
              returned |-> IF skip THEN Some(global_parameters)
                           ELSE IF Raised(fold) THEN NoValue
                           ELSE Some(fold.aggregated)]

TooStaleIn(c) ==
    {i \in DOMAIN round_log :
        /\ c \in DOMAIN round_log[i].fitted
        /\ Lag(round_log[i], c) > staleness_threshold}

TrainedInEvery(c, i) ==
    \A k \in 1..i :
        /\ round_log[k].round = k
        /\ c \in DOMAIN round_log[k].fitted
        /\ Lag(round_log[k], c) <= staleness_threshold

\* C23: with a threshold of at least 1, a client that is selected and
\* trains in every round from round 1 on reports staleness exactly 1 in
\* every round, never 0: the staleness is taken against the local_round
\* the previous round left, before local_round is assigned.
C23_AlwaysOneBehind ==
    staleness_threshold >= 1 =>
        \A i \in DOMAIN round_log : \A c \in DOMAIN round_log[i].received :
            TrainedInEvery(c, i) =>
                /\ round_log[i].fitted[c] = i - 1
                /\ round_log[i].received[c].staleness = 1
                /\ ~round_log[i].received[c].is_stale

\* a session of three rounds in which one client trained in every round
\* and reported staleness 1 each time, while another that missed a round
\* reported more
C23_Witness ==
    /\ pc = "done"
    /\ Len(round_log) = 3
    /\ staleness_threshold >= 1
    /\ \E c \in cids :
          /\ TrainedInEvery(c, 3)
          /\ \A i \in 1..3 : /\ c \in DOMAIN round_log[i].received
                              /\ round_log[i].received[c].staleness = 1
          /\ local_round[c] = 3
    /\ \E d \in cids : \E i \in 1..3 :
          /\ d \in DOMAIN round_log[i].received
          /\ round_log[i].received[d].staleness > 1

\* C24: for contributions computed by AsyncFlowerClient.fit under the
\* threshold of the fit config, aggregate_fit rejects a contribution
\* exactly when the client skipped training, which is when it reports
\* is_stale = True with a staleness above the threshold, and accepts
\* every contribution reported with is_stale = False, whatever staleness
\* it carries.
C24_ServerAgreesWithClient ==
    \A i \in DOMAIN round_log : \A c \in DOMAIN round_log[i].received :
        LET r == round_log[i].received[c]
            skipped == Lag(round_log[i], c) > staleness_threshold
        IN  /\ r.is_stale <=> skipped
            /\ r.is_stale => r.staleness > staleness_threshold
            /\ ~r.accepted <=> r.is_stale
            /\ ~r.is_stale => r.accepted

\* a round in which one client trained and was accepted although it
\* reported a staleness above 0, and another skipped training and was
\* rejected
C24_Witness ==
    \E i \in DOMAIN round_log : \E c, d \in DOMAIN round_log[i].received :
        /\ ~round_log[i].received[c].is_stale
        /\ round_log[i].received[c].staleness > 0
        /\ round_log[i].received[c].accepted
        /\ round_log[i].received[d].is_stale
        /\ ~round_log[i].received[d].accepted

\* the wiring of start_async_server: every client is asked and every
\* client is needed
WiredAsStarted ==
    /\ fraction_fit = <<1, 1>>
    /\ min_fit_clients = Cardinality(cids)

\* every client's contribution is in the entry e and was accepted
AllArrivedAccepted(e) ==
    /\ DOMAIN e.received = cids
    /\ \A c \in cids : e.received[c].accepted

\* C25: with fraction_fit = 1.0 and min_fit_clients = num_clients, a round
\* publishes a new global parameter vector only if the contributions of
\* all num_clients clients arrived and all were accepted; a round with a
\* rejected or missing contribution leaves the global vector and the
\* history as they were.
C25_AllOrNothing ==
    [][(AggregateFitStep /\ WiredAsStarted) =>
          LET e == round_log'[Len(round_log')]
          IN  /\ e.outcome = "aggregated" => AllArrivedAccepted(e)
              /\ ~AllArrivedAccepted(e) =>
                    /\ global_parameters' = global_parameters
                    /\ parameters_history' = parameters_history
                    /\ e.outcome # "aggregated"]_vars

\* under that wiring a round published a vector, and a later round in
\* which three of the four contributions arrived published nothing
C25_Witness ==
    /\ WiredAsStarted
    /\ \E i, k \in DOMAIN round_log :
          /\ i < k
          /\ round_log[i].outcome = "aggregated"
          /\ AllArrivedAccepted(round_log[i])
          /\ round_log[k].outcome = "skipped"
          /\ Cardinality(DOMAIN round_log[k].received) = Cardinality(cids) - 1
          /\ Len(parameters_history) = 2

\* the step in which client c answers the fit instruction it holds
FitStep(c) ==
    /\ pc = "fit_clients"
    /\ c \in DOMAIN fit_ins
    /\ c \notin DOMAIN fit_ins'
    /\ Len(results') = Len(results) + 1

\* what fit finds for client c: the staleness against the round of the
\* config is above the threshold of the config
FindsTooStale(c) ==
    Max(0, fit_ins[c].server_round - local_round[c])
        > fit_ins[c].staleness_threshold

\* C26: when fit finds staleness > stalenessThreshold it neither trains
\* nor loads the server's parameters: it returns its current local
\* parameters with is_stale = True and needs_sync = True, and leaves
\* local_round and the local model unchanged.
C26_TooStaleFrame ==
    [][\A c \in cids :
          (FitStep(c) /\ FindsTooStale(c)) =>
              LET fit_res == results'[Len(results')]
              IN  /\ fit_res.cid = c
                  /\ fit_res.parameters = model[c]
                  /\ fit_res.is_stale
                  /\ fit_res.needs_sync
                  /\ fit_res.staleness =
                        fit_ins[c].server_round - local_round[c]
                  /\ local_round'[c] = local_round[c]
                  /\ model'[c] = model[c]]_vars

\* a client that had trained in an earlier round answered on the too-stale
\* path: what it returned is its own model, which is neither the server's
\* vector nor what training on it would give
C26_Witness ==
    \E i \in DOMAIN results :
        LET c == results[i].cid
        IN  /\ pc = "fit_clients"
            /\ results[i].needs_sync
            /\ local_round[c] > 0
            /\ results[i].parameters = model[c]
            /\ model[c] # parameters
            /\ model[c] # Train(c, parameters)

\* C27: when fit finds staleness <= stalenessThreshold it overwrites its
\* model with the vector received from the server, trains, and then sets
\* local_round to the server round of the config; so local_round is never
\* above the latest server round the client has seen, and it never
\* decreases.
C27_TrainedFrame ==
    [][/\ \A c \in cids :
             (FitStep(c) /\ ~FindsTooStale(c)) =>
                 LET fit_res == results'[Len(results')]
                 IN  /\ fit_res.cid = c
                     /\ model'[c] = Train(c, parameters)
                     /\ fit_res.parameters = model'[c]
                     /\ ~fit_res.is_stale
                     /\ ~fit_res.needs_sync
                     /\ local_round'[c] = fit_ins[c].server_round
                     /\ client_server_round'[c] = fit_ins[c].server_round
       /\ \A c \in cids :
             /\ local_round[c] <= client_server_round[c]
             /\ local_round'[c] <= client_server_round'[c]
             /\ local_round'[c] >= local_round[c]]_vars

\* a client that trained in the first round has trained again in the
\* second: its model is the training result on the server's vector and
\* its local_round is the round of the config
C27_Witness ==
    \E i \in DOMAIN results :
        LET c == results[i].cid
        IN  /\ pc = "fit_clients"
            /\ server_round = 2
            /\ ~results[i].is_stale
            /\ results[i].staleness = 1
            /\ local_round[c] = 2
            /\ client_server_round[c] = 2
            /\ model[c] = Train(c, parameters)
            /\ results[i].parameters = model[c]
            /\ parameters # InitialParameters

\* the number of contributions passed to aggregate_fit in the rounds of
\* the log
PassedSoFar ==
    Sum([i \in DOMAIN round_log |->
            Cardinality(DOMAIN round_log[i].received)])

\* the results of the round that pass the staleness filter
PassingFilter ==
    {i \in DOMAIN results :
        ~(results[i].is_stale /\ results[i].staleness > staleness_threshold)}

\* C28: accepted_updates + rejected_updates is the number of contributions
\* passed to aggregate_fit so far, neither counter ever decreases, and a
\* contribution that passes the staleness filter is counted in
\* accepted_updates also in a round whose aggregation is then skipped for
\* lack of min_fit_clients accepted contributions.
C28_CountersAddUp ==
    [][/\ accepted_updates + rejected_updates = PassedSoFar
       /\ accepted_updates' + rejected_updates' = PassedSoFar'
       /\ accepted_updates' >= accepted_updates
       /\ rejected_updates' >= rejected_updates
       /\ IF AggregateFitStep
          THEN /\ accepted_updates' =
                     accepted_updates + Cardinality(PassingFilter)
               /\ rejected_updates' =
                     rejected_updates + Len(results)
                         - Cardinality(PassingFilter)
          ELSE /\ accepted_updates' = accepted_updates
               /\ rejected_updates' = rejected_updates]_vars

\* two rounds were skipped for lack of accepted contributions, and the
\* contributions that passed the filter in them are counted
C28_Witness ==
    /\ Len(round_log) = 2
    /\ \A i \in 1..2 : round_log[i].outcome = "skipped"
    /\ accepted_updates = 2
    /\ rejected_updates = 1
    /\ Len(parameters_history) = 1

\* the step in which aggregate_evaluate runs
AggregateEvaluateStep == pc = "evaluate_clients" /\ pc' # "evaluate_clients"

\* the accuracy an evaluation result reports, 0.0 when it reports none
AccuracyOf(eval_res) ==
    IF "accuracy" \in DOMAIN eval_res.metrics
    THEN eval_res.metrics.accuracy
    ELSE RInt(0)

\* C29: aggregate_evaluate returns the unweighted arithmetic mean of the
\* accuracies of the results that arrived, a result without an accuracy
\* counting as 0.0 and the sample counts playing no part, and returns no
\* score when no evaluation result arrived.
C29_MeanAccuracy ==
    [][AggregateEvaluateStep =>
          IF Len(eval_results) = 0
          THEN eval_return' = NoValue
          ELSE /\ eval_return' # NoValue
               /\ RMul(eval_return'[1], RInt(Len(eval_results))) =
                     RSum([i \in 1..Len(eval_results) |->
                              AccuracyOf(eval_results[i])])]_vars

\* the session ended with the score 5/12, which is the mean of the
\* accuracies 1/2 and 1/3 of two results and no sample-weighted mean of
\* them other than that of equal counts
C29_Witness ==
    /\ pc = "done"
    /\ eval_return = Some(RDiv(5, 12))

\* the rounds of the log whose aggregation published a vector
AggregatedRounds ==
    {i \in DOMAIN round_log : round_log[i].outcome = "aggregated"}

\* the history has one entry more than there are aggregated rounds, and
\* its last entry is the current global vector
HistoryInStep ==
    /\ Len(parameters_history) = 1 + Cardinality(AggregatedRounds)
    /\ parameters_history[Len(parameters_history)] = global_parameters

\* C30: the parameter history is append-only: its length is 1 plus the
\* number of rounds that aggregated successfully, its earlier entries are
\* never replaced or removed, and its last entry is the current
\* global_parameters.
C30_AppendOnly ==
    [][/\ HistoryInStep
       /\ HistoryInStep'
       /\ Len(parameters_history') >= Len(parameters_history)
       /\ SubSeq(parameters_history', 1, Len(parameters_history))
             = parameters_history]_vars

\* both rounds of a session aggregated: the history holds the initial
\* vector and the two published ones, the last being the global vector
C30_Witness ==
    /\ Cardinality(AggregatedRounds) = 2
    /\ Len(parameters_history) = 3
    /\ parameters_history[1] = InitialParameters
    /\ parameters_history[2] # parameters_history[1]
    /\ parameters_history[3] # parameters_history[2]
    /\ parameters_history[3] = global_parameters

====
